---- MODULE Spec2Model ----
(***************************************************************************)
(* A model of the close-approach query engine: the filter built by         *)
(* create_filters (filters.py), the limit generator (filters.py), the      *)
(* numeric ingestion helper parse_float (extract.py) and the construction  *)
(* of NearEarthObject / CloseApproach (models.py).                         *)
(***************************************************************************)
EXTENDS Integers, Sequences, FiniteSets, TLC

(* ---------------------------------------------------------------------- *)
(* Bounds of the model                                                     *)
(* ---------------------------------------------------------------------- *)
\* the largest number of criteria given a non-None value in one query
MaxSupplied == 2
\* the longest source sequence given to limit
MaxLen == 3
\* the largest n given to limit
MaxN == 3
\* the longest string given to parse_float
MaxStrLen == 3
\* the largest number of NearEarthObjects constructed
MaxNeos == 3
\* the largest number of approaches appended to the lists
MaxAppends == 3

(* ---------------------------------------------------------------------- *)
(* Python values                                                           *)
(* ---------------------------------------------------------------------- *)
\* Every value carries its Python type; the unused fields are 0 / FALSE.
PyValue(t, d, s, n, isnan) == [type |-> t, day |-> d, tod |-> s, num |-> n, nan |-> isnan]
None == PyValue("NoneType", 0, 0, 0, FALSE)
Date(d) == PyValue("date", d, 0, 0, FALSE)
Datetime(d, s) == PyValue("datetime", d, s, 0, FALSE)
Float(n) == PyValue("float", 0, 0, n, FALSE)
NaN == PyValue("float", 0, 0, 0, TRUE)
PyInt(n) == PyValue("int", 0, 0, n, FALSE)
Bool(b) == PyValue("bool", 0, 0, IF b THEN 1 ELSE 0, FALSE)
Str == PyValue("str", 0, 0, 0, FALSE)
\* a str object with its text (a name, or the characters of a timestamp)
StrValue(s) == [type |-> "str", text |-> s]

\* sample domains: days and times of day of an approach, the numeric
\* attribute values (a number or not-a-number) and the numeric reference
\* values (below, at and above the attribute's number)
Days == {1, 2}
Tods == {0, 1}
Floats == {Float(1), NaN}
RefNumbers == {0, 1, 2}

\* the outcome of a call: a returned value or a raised exception
Return(v) == [exc |-> "none", value |-> v]
Raise(e) == [exc |-> e, value |-> FALSE]

\* isinstance(v, valid_type) for the three valid_type entries of create_filters:
\* datetime.date (datetime is a subclass of date), (float, int) (bool is a
\* subclass of int) and bool.
isinstance(v, valid_type) ==
    CASE valid_type = "date" -> v.type \in {"date", "datetime"}
      [] valid_type = "float_int" -> v.type \in {"float", "int", "bool"}
      [] valid_type = "bool" -> v.type = "bool"
      [] OTHER -> FALSE

IsNumber(v) == v.type \in {"float", "int", "bool"}

\* operator.eq / operator.ge / operator.le / operator.is_ applied to (a, b)
operator_eq(a, b) ==
    IF IsNumber(a) /\ IsNumber(b)
    THEN Return(~a.nan /\ ~b.nan /\ a.num = b.num)
    ELSE IF a.type = b.type
         THEN Return(a.day = b.day /\ a.tod = b.tod)
         ELSE Return(FALSE)

\* operator.ge with not-a-number read as zero
operator_ge_nan_as_zero(a, b) ==
    IF IsNumber(a) /\ IsNumber(b)
    THEN Return(a.num >= b.num)
    ELSE IF a.type = b.type /\ a.type \in {"date", "datetime"}
         THEN Return(a.day > b.day \/ (a.day = b.day /\ a.tod >= b.tod))
         ELSE Raise("TypeError")

operator_ge(a, b) ==
    IF IsNumber(a) /\ IsNumber(b)
    THEN Return(~a.nan /\ ~b.nan /\ a.num >= b.num)
    ELSE IF a.type = b.type /\ a.type \in {"date", "datetime"}
         THEN Return(a.day > b.day \/ (a.day = b.day /\ a.tod >= b.tod))
         ELSE Raise("TypeError")

operator_le(a, b) ==
    IF IsNumber(a) /\ IsNumber(b)
    THEN Return(~a.nan /\ ~b.nan /\ a.num <= b.num)
    ELSE IF a.type = b.type /\ a.type \in {"date", "datetime"}
         THEN Return(a.day < b.day \/ (a.day = b.day /\ a.tod <= b.tod))
         ELSE Raise("TypeError")

\* identity: True, False and None are singletons; other objects of the
\* model's domains are never the same object as a bool attribute.
operator_is(a, b) ==
    Return(a.type = b.type /\ a.type \in {"bool", "NoneType"} /\ a.num = b.num)

Apply(op, a, b) ==
    CASE op = "eq" -> operator_eq(a, b)
      [] op = "ge" -> operator_ge(a, b)
      [] op = "le" -> operator_le(a, b)
      [] op = "is_" -> operator_is(a, b)

(* ---------------------------------------------------------------------- *)
(* models.py: NearEarthObject and CloseApproach                            *)
(* ---------------------------------------------------------------------- *)
\* the list object created once, when `def __init__` is evaluated, as the
\* default of the `approaches` parameter
DefaultList == 0

\* NearEarthObject.__init__: every argument is stored as given;
\* `approaches` is a reference to a list object.
NearEarthObject(designation, name, hazardous, diameter, approaches) ==
    [designation |-> designation, name |-> name, diameter |-> diameter,
     hazardous |-> hazardous, approaches |-> approaches]

\* helpers.cd_to_datetime: a timestamp text of the form YYYY-Mon-DD HH:MM
\* (any further characters are discarded) gives the datetime; a text of
\* another form raises ValueError and an argument that is no str raises
\* TypeError. A datetime is Datetime(day, minute of the day), the day
\* counted so that the days of January 2020 are 1..31.
DecDigits == <<"0", "1", "2", "3", "4", "5", "6", "7", "8", "9">>
IsDecDigit(ch) == \E i \in 1..Len(DecDigits) : DecDigits[i] = ch
DecDigitValue(ch) == (CHOOSE i \in 1..Len(DecDigits) : DecDigits[i] = ch) - 1
DecDigitChar(k) == DecDigits[k + 1]
TwoDigits(k) == <<DecDigitChar(k \div 10), DecDigitChar(k % 10)>>

RECURSIVE NumberOf(_)
NumberOf(t) ==
    IF Len(t) = 0 THEN 0
    ELSE 10 * NumberOf(SubSeq(t, 1, Len(t) - 1)) + DecDigitValue(t[Len(t)])

AllDigits(t) == \A i \in 1..Len(t) : IsDecDigit(t[i])

MonthNames == << <<"J", "a", "n">>, <<"F", "e", "b">>, <<"M", "a", "r">>,
                 <<"A", "p", "r">>, <<"M", "a", "y">>, <<"J", "u", "n">>,
                 <<"J", "u", "l">>, <<"A", "u", "g">>, <<"S", "e", "p">>,
                 <<"O", "c", "t">>, <<"N", "o", "v">>, <<"D", "e", "c">> >>
IsMonthName(t) == \E i \in 1..Len(MonthNames) : MonthNames[i] = t
MonthNumber(t) == CHOOSE i \in 1..Len(MonthNames) : MonthNames[i] = t

CdLength == Len(<<"Y", "Y", "Y", "Y", "-", "M", "o", "n", "-", "D", "D", " ", "H", "H", ":", "M", "M">>)

\* the text has the form YYYY-Mon-DD HH:MM in its first characters
CdWellFormed(t) ==
    /\ Len(t) >= CdLength
    /\ AllDigits(SubSeq(t, 1, 4)) /\ t[5] = "-"
    /\ IsMonthName(SubSeq(t, 6, 8)) /\ t[9] = "-"
    /\ AllDigits(SubSeq(t, 10, 11)) /\ t[12] = " "
    /\ AllDigits(SubSeq(t, 13, 14)) /\ t[15] = ":"
    /\ AllDigits(SubSeq(t, 16, 17))
    /\ NumberOf(SubSeq(t, 10, 11)) \in 1..31
    /\ NumberOf(SubSeq(t, 13, 14)) \in 0..23
    /\ NumberOf(SubSeq(t, 16, 17)) \in 0..59

DayNumber(year, month, dom) == (year - 2020) * 372 + (month - 1) * 31 + dom

cd_to_datetime(v) ==
    IF v.type # "str" THEN Raise("TypeError")
    ELSE IF "text" \notin DOMAIN v THEN Raise("ValueError")
    ELSE IF ~CdWellFormed(v.text) THEN Raise("ValueError")
    ELSE Return(Datetime(DayNumber(NumberOf(SubSeq(v.text, 1, 4)),
                                   MonthNumber(SubSeq(v.text, 6, 8)),
                                   NumberOf(SubSeq(v.text, 10, 11))),
                         60 * NumberOf(SubSeq(v.text, 13, 14))
                            + NumberOf(SubSeq(v.text, 16, 17))))

\* CloseApproach.__init__: stores _designation, distance and velocity as
\* given and cd_to_datetime(time) as time; neo starts as None. A time that
\* cd_to_datetime rejects ends the construction with its exception.
CloseApproach(designation, time, distance, velocity) ==
    LET t == cd_to_datetime(time)
    IN  IF t.exc # "none" THEN t
        ELSE Return([designation |-> designation, time |-> t.value,
                     distance |-> distance, velocity |-> velocity, neo |-> None])

\* the timestamp text of day d of January 2020, minute s of the day
CdText(d, s) ==
    StrValue(<<"2", "0", "2", "0", "-", "J", "a", "n", "-">> \o TwoDigits(d) \o <<" ">>
             \o TwoDigits(s \div 60) \o <<":">> \o TwoDigits(s % 60))

Designations == {"A"}
NEOs == {NearEarthObject(d, None, h, m, DefaultList) :
            d \in Designations, h \in {Bool(TRUE), Bool(FALSE)}, m \in Floats}
Times == {Datetime(d, s) : d \in Days, s \in Tods}
TimeTexts == {CdText(d, s) : d \in Days, s \in Tods}
NewApproaches == {CloseApproach(d, t, x, v).value :
                    d \in Designations, t \in TimeTexts, x \in Floats, v \in Floats}

(* ---------------------------------------------------------------------- *)
(* filters.py: ApproachFilter and create_filters                           *)
(* ---------------------------------------------------------------------- *)
CriterionNames == <<"date", "start_date", "end_date", "distance_min", "distance_max",
                    "velocity_min", "velocity_max", "diameter_min", "diameter_max",
                    "hazardous">>
NumCriteria == Len(CriterionNames)
Names == {CriterionNames[i] : i \in 1..NumCriteria}

\* get without the .date() of 'time'
get_no_date(approach, attr) ==
    CASE attr = "time" -> Return(approach.time)
      [] attr = "distance" -> Return(approach.distance)
      [] attr = "velocity" -> Return(approach.velocity)
      [] attr = "neo.diameter" ->
            IF approach.neo = None THEN Raise("AttributeError")
            ELSE Return(approach.neo.diameter)
      [] attr = "neo.hazardous" ->
            IF approach.neo = None THEN Raise("AttributeError")
            ELSE Return(approach.neo.hazardous)

\* ApproachFilter.get: operator.attrgetter(attr)(approach), then .date() for
\* 'time'. A dotted path through neo = None raises AttributeError.
get(approach, attr) ==
    CASE attr = "time" -> Return(Date(approach.time.day))
      [] attr = "distance" -> Return(approach.distance)
      [] attr = "velocity" -> Return(approach.velocity)
      [] attr = "neo.diameter" ->
            IF approach.neo = None THEN Raise("AttributeError")
            ELSE Return(approach.neo.diameter)
      [] attr = "neo.hazardous" ->
            IF approach.neo = None THEN Raise("AttributeError")
            ELSE Return(approach.neo.hazardous)

\* one element of the list comprehension of __call__:
\* f[2](self.get(approach, f[1]), f[0])   (tuples are 1-indexed here)
Element(f, approach) ==
    LET g == get(approach, f[2])
    IN  IF g.exc # "none" THEN g ELSE Apply(f[3], g.value, f[1])

\* the list comprehension builds the whole list first, left to right: the
\* first element that raises ends the call with that exception; all() of
\* the finished list is the conjunction of its elements.
RECURSIVE AllOfList(_, _, _, _)
AllOfList(fs, ap, i, acc) ==
    IF i > Len(fs) THEN Return(acc)
    ELSE LET r == Element(fs[i], ap)
         IN  IF r.exc # "none" THEN r ELSE AllOfList(fs, ap, i + 1, acc /\ r.value)

\* __call__ with any([...]) in place of all([...])
RECURSIVE AnyOfList(_, _, _, _)
AnyOfList(fs, ap, i, acc) ==
    IF i > Len(fs) THEN Return(acc)
    ELSE LET r == Element(fs[i], ap)
         IN  IF r.exc # "none" THEN r ELSE AnyOfList(fs, ap, i + 1, acc \/ r.value)

ApproachFilter_call_any(fs, ap) == AnyOfList(fs, ap, 1, FALSE)

\* ApproachFilter.__call__: all([...])
ApproachFilter_call(fs, ap) == AllOfList(fs, ap, 1, TRUE)

\* __init__ that keeps every tuple
ApproachFilter_keep_all(fs) == fs

\* ApproachFilter.__init__: keeps the tuples whose value is an instance of
\* the tuple's valid_type.
ApproachFilter(fs) == SelectSeq(fs, LAMBDA f : isinstance(f[1], f[4]))

\* the tuple list of create_filters, in source order
FilterTuples(a) ==
    << <<a["date"], "time", "eq", "date">>,
       <<a["start_date"], "time", "ge", "date">>,
       <<a["end_date"], "time", "le", "date">>,
       <<a["distance_min"], "distance", "ge", "float_int">>,
       <<a["distance_max"], "distance", "le", "float_int">>,
       <<a["velocity_min"], "velocity", "ge", "float_int">>,
       <<a["velocity_max"], "velocity", "le", "float_int">>,
       <<a["diameter_min"], "neo.diameter", "ge", "float_int">>,
       <<a["diameter_max"], "neo.diameter", "le", "float_int">>,
       <<a["hazardous"], "neo.hazardous", "is_", "bool">> >>

create_filters(a) == ApproachFilter(FilterTuples(a))

\* the keyword defaults of create_filters
DefaultArgs == [c \in Names |-> None]

\* the values a caller may pass for one criterion: values of the documented
\* type, and one value of another type (a datetime for a date, an int for
\* the flag, a string for a number)
ArgValues(c) ==
    IF c \in {"date", "start_date", "end_date"}
    THEN {Date(d) : d \in Days} \cup {Datetime(1, 0)}
    ELSE IF c = "hazardous"
         THEN {Bool(TRUE), Bool(FALSE), PyInt(1)}
         ELSE {Float(n) : n \in RefNumbers} \cup {Str}

Supplied(a) == {c \in Names : a[c] # None}

RECURSIVE ArgSetsUpTo(_)
ArgSetsUpTo(k) ==
    IF k = 0 THEN {DefaultArgs}
    ELSE LET prev == ArgSetsUpTo(k - 1)
         IN  prev \cup {[a EXCEPT ![c] = v] :
                          a \in prev, c \in Names, v \in UNION {ArgValues(n) : n \in Names}}

ArgSets == {a \in ArgSetsUpTo(MaxSupplied) : \A c \in Names : a[c] = None \/ a[c] \in ArgValues(c)}

(* ---------------------------------------------------------------------- *)
(* State                                                                   *)
(* ---------------------------------------------------------------------- *)
VARIABLES
    \* the query: create_filters, then the filter called on an approach
    pc,         \* the step of the query: "start", "built", "called"
    approach,   \* the CloseApproach under evaluation
    args,       \* the keyword arguments given to create_filters
    filters,    \* ApproachFilter.filters
    result,     \* the outcome of ApproachFilter.__call__
    \* the limit generator and its consumer
    gpc,        \* "created", "running", "suspended", "done", "closed"
    source,     \* the elements the underlying iterator produces
    n,          \* the argument n of limit
    stop,       \* the stop of the islice, once the body has started
    cnt,        \* the islice's count of elements it has produced
    srcPos,     \* the number of elements pulled from the underlying iterator
    yielded,    \* the elements handed to the consumer, in order
    requested,  \* the number of next() calls the consumer has made
    \* numeric ingestion
    ppc,        \* "input", "parsed"
    input,      \* the string given to parse_float
    parsed,     \* the outcome of parse_float
    \* construction of NearEarthObjects and their approaches lists
    neos,       \* the NearEarthObjects constructed so far, in order
    lists,      \* the list objects: reference -> content
    lastOp      \* the last operation on neos / lists

fvars == <<pc, approach, args, filters, result>>
lvars == <<gpc, source, n, stop, cnt, srcPos, yielded, requested>>
pvars == <<ppc, input, parsed>>
nvars == <<neos, lists, lastOp>>
vars == <<fvars, lvars, pvars, nvars>>

\* the parts of the state a specification does not exercise
FilterIdle == pc = "idle" /\ approach = None /\ args = <<>> /\ filters = <<>> /\ result = None
LimitIdle ==
    /\ gpc = "idle" /\ source = <<>> /\ n = None /\ stop = None
    /\ cnt = 0 /\ srcPos = 0 /\ yielded = <<>> /\ requested = 0
ParseIdle == ppc = "idle" /\ input = <<>> /\ parsed = None
NeoIdle == neos = <<>> /\ lists = <<>> /\ lastOp = None

NotCalled == Raise("not called")

FilterInit ==
    /\ pc = "start"
    /\ approach = None
    /\ args = DefaultArgs
    /\ filters = <<>>
    /\ result = NotCalled
    /\ LimitIdle /\ ParseIdle /\ NeoIdle

\* the linkage step: binds the approach to the NearEarthObject of its
\* designation
Link(ap, neo) == [ap EXCEPT !.neo = neo]

\* the approaches of a database: unlinked as constructed, or linked
Approaches ==
    NewApproaches \cup
    {Link(ap, neo) : ap \in NewApproaches, neo \in NEOs}

CreateFilters ==
    /\ pc = "start"
    /\ \E a \in ArgSets :
          /\ args' = a
          /\ filters' = create_filters(a)
    /\ pc' = "built"
    /\ UNCHANGED <<approach, result, lvars, pvars, nvars>>

Call ==
    /\ pc = "built"
    /\ \E ap \in Approaches :
          /\ approach' = ap
          /\ result' = ApproachFilter_call(filters, ap)
    /\ pc' = "called"
    /\ UNCHANGED <<args, filters, lvars, pvars, nvars>>

FilterNext == CreateFilters \/ Call

SpecFilter == FilterInit /\ [][FilterNext]_vars

(* ---------------------------------------------------------------------- *)
(* Properties of the filter                                                *)
(* ---------------------------------------------------------------------- *)
CriterionIndex(c) == CHOOSE i \in 1..NumCriteria : CriterionNames[i] = c

\* the criteria table of the specification: attribute path and operator
TableAttr(c) ==
    CASE c \in {"date", "start_date", "end_date"} -> "time"
      [] c \in {"distance_min", "distance_max"} -> "distance"
      [] c \in {"velocity_min", "velocity_max"} -> "velocity"
      [] c \in {"diameter_min", "diameter_max"} -> "neo.diameter"
      [] c = "hazardous" -> "neo.hazardous"

TableOp(c) ==
    CASE c = "date" -> "eq"
      [] c \in {"start_date", "distance_min", "velocity_min", "diameter_min"} -> "ge"
      [] c \in {"end_date", "distance_max", "velocity_max", "diameter_max"} -> "le"
      [] c = "hazardous" -> "is_"

TableType(c) ==
    CASE c \in {"date", "start_date", "end_date"} -> {"date", "datetime"}
      [] c = "hazardous" -> {"bool"}
      [] OTHER -> {"float", "int", "bool"}

\* a criterion is active when its reference value is of a supported type
Active(a, c) == a[c].type \in TableType(c)
ActiveSet(a) == {c \in Names : Active(a, c)}

\* the approach satisfies criterion c on its own:
\* operator(extracted attribute, reference value) is true
Satisfies(c, ap, ref) ==
    LET g == get(ap, TableAttr(c))
    IN  g.exc = "none" /\ Apply(TableOp(c), g.value, ref) = Return(TRUE)

Matches(a, ap) == ApproachFilter_call(create_filters(a), ap) = Return(TRUE)

\* C1: the filter returns true iff the approach satisfies every active
\* criterion of the table on its own (a criterion whose attribute cannot be
\* read or compared is not satisfied, and the call then does not return
\* true), and making an active criterion absent never turns a match into a
\* non-match.
C1_Conjunction ==
    pc = "called" =>
        /\ (result = Return(TRUE)) <=>
              (\A c \in ActiveSet(args) : Satisfies(c, approach, args[c]))
        /\ \A c \in ActiveSet(args) :
              result = Return(TRUE) => Matches([args EXCEPT ![c] = None], approach)

C1_Witness ==
    /\ pc = "called"
    /\ Cardinality(ActiveSet(args)) >= 2
    /\ result = Return(TRUE)
    /\ approach.neo # None

\* the tuple list ts without its i-th tuple
WithoutTuple(ts, i) == [j \in 1..(Len(ts) - 1) |-> IF j < i THEN ts[j] ELSE ts[j + 1]]

\* C2: a criterion whose reference value is None does not constrain the
\* query: the outcome is the one of the same query without that criterion,
\* and a query whose reference values are all None matches every approach.
C2_AbsentInert ==
    pc = "called" =>
        /\ LET ts == FilterTuples(args)
           IN  \A i \in 1..NumCriteria :
                  args[CriterionNames[i]] = None =>
                     result = ApproachFilter_call(ApproachFilter(WithoutTuple(ts, i)), approach)
        /\ args = DefaultArgs => result = Return(TRUE)

C2_Witness ==
    /\ pc = "called"
    /\ args["distance_min"] = None
    /\ args["diameter_max"] = None
    /\ approach.distance = NaN
    /\ approach.neo = None
    /\ Cardinality(ActiveSet(args)) >= 1
    /\ result = Return(TRUE)

\* C3: evaluating the filter on an approach whose neo is None completes
\* with a boolean and does not raise, whatever the criteria are.
C3_UnlinkedNoRaise ==
    (pc = "called" /\ approach.neo = None) => result.exc = "none"

\* the numeric attribute a min/max criterion reads
NumericCriteria == {"distance_min", "distance_max", "velocity_min", "velocity_max",
                    "diameter_min", "diameter_max"}

AttributeIsNaN(ap, c) ==
    CASE c \in {"distance_min", "distance_max"} -> ap.distance = NaN
      [] c \in {"velocity_min", "velocity_max"} -> ap.velocity = NaN
      [] c \in {"diameter_min", "diameter_max"} -> ap.neo # None /\ ap.neo.diameter = NaN

\* C6: an approach whose distance, velocity or linked diameter is NaN
\* never matches a query with the corresponding min or max criterion
\* active, whatever the reference value (0 included).
C6_NaNExcluded ==
    pc = "called" =>
        \A c \in NumericCriteria :
            (args[c].type \in {"float", "int"} /\ AttributeIsNaN(approach, c))
                => /\ result # Return(TRUE)
                   /\ ~Satisfies(c, approach, args[c])

C6_Witness ==
    /\ pc = "called"
    /\ args["diameter_min"] = Float(0)
    /\ approach.neo # None
    /\ approach.neo.diameter = NaN
    /\ Supplied(args) = {"diameter_min"}
    /\ result = Return(FALSE)

\* criterion c is applied as a predicate of the filter
Applied(a, fs, c) ==
    \E i \in 1..Len(fs) : fs[i] = FilterTuples(a)[CriterionIndex(c)]

\* C9: every criterion given a value other than None is applied as a
\* predicate of the constructed filter (the construction never completes
\* with such a criterion dropped).
C9_NeverIgnored ==
    pc \in {"built", "called"} =>
        \A c \in Supplied(args) : Applied(args, filters, c)

\* C10: date criteria read only the date of the approach's time.
SameDayOtherTime(ap, s) == [ap EXCEPT !.time = Datetime(ap.time.day, s)]

DateExpected(c, ap, ref) ==
    CASE c = "date" -> ap.time.day = ref.day
      [] c = "start_date" -> ap.time.day >= ref.day
      [] c = "end_date" -> ap.time.day <= ref.day

DateCriteria == {"date", "start_date", "end_date"}

\* C10: with reference values that are dates, an approach and any approach
\* on the same day at another time of day get the same outcome; a match
\* implies every date criterion holds of the approach's day (equal / on or
\* after / on or before, bounds included), and a query of one date
\* criterion matches exactly when it holds.
C10_DateOnly ==
    pc = "called" =>
        /\ \A s \in Tods : ApproachFilter_call(filters, SameDayOtherTime(approach, s)) = result
        /\ \A c \in DateCriteria :
              args[c].type = "date" =>
                 /\ result = Return(TRUE) => DateExpected(c, approach, args[c])
                 /\ Supplied(args) = {c} => result = Return(DateExpected(c, approach, args[c]))

C10_Witness ==
    /\ pc = "called"
    /\ args["start_date"] = Date(2)
    /\ args["end_date"] = Date(2)
    /\ approach.time = Datetime(2, 1)
    /\ result = Return(TRUE)

(* ---------------------------------------------------------------------- *)
(* filters.py: limit                                                       *)
(* ---------------------------------------------------------------------- *)
Elems == {"a", "b"}
Sources == UNION {[1..k -> Elems] : k \in 0..MaxLen}
LimitArgs == {None} \cup {PyInt(k) : k \in 0..MaxN}

\* the truth value of an object: None and 0 are false
Truthy(v) == v # None /\ ~(IsNumber(v) /\ ~v.nan /\ v.num = 0)

\* limit without the normalisation of n
limit_stop_unnormalised(v) == v

\* n = n if n else None
limit_stop(v) == IF Truthy(v) THEN v ELSE None

\* an islice that asks the iterator once more before it ends
islice_done_late(st, c) == st # None /\ c > st.num

\* islice(iterator, stop).__next__ ends without asking the iterator once it
\* has produced stop elements
islice_done(st, c) == st # None /\ c >= st.num

\* the consumer may ask a finished generator again, up to this many calls
MaxRequests == MaxLen + 2

LimitInit ==
    /\ gpc = "created"
    /\ source \in Sources
    /\ n \in LimitArgs
    /\ stop = None
    /\ cnt = 0
    /\ srcPos = 0
    /\ yielded = <<>>
    /\ requested = 0
    /\ FilterIdle /\ ParseIdle /\ NeoIdle

\* the consumer's first next(): the body starts, n is normalised and the
\* islice is built (nothing is pulled by that)
FirstNext ==
    /\ gpc = "created"
    /\ stop' = limit_stop(n)
    /\ requested' = requested + 1
    /\ gpc' = "running"
    /\ UNCHANGED <<source, n, cnt, srcPos, yielded, fvars, pvars, nvars>>

\* a later next(): the generator resumes after its yield
NextCall ==
    /\ gpc = "suspended"
    /\ requested' = requested + 1
    /\ gpc' = "running"
    /\ UNCHANGED <<source, n, stop, cnt, srcPos, yielded, fvars, pvars, nvars>>

\* next() on a finished generator raises StopIteration at once
NextAfterDone ==
    /\ gpc = "done"
    /\ requested < MaxRequests
    /\ requested' = requested + 1
    /\ UNCHANGED <<gpc, source, n, stop, cnt, srcPos, yielded, fvars, pvars, nvars>>

\* the for loop asks the islice, which has reached its stop: the loop and
\* the generator end
IsliceStop ==
    /\ gpc = "running"
    /\ islice_done(stop, cnt)
    /\ gpc' = "done"
    /\ UNCHANGED <<source, n, stop, cnt, srcPos, yielded, requested, fvars, pvars, nvars>>

\* the islice asks the underlying iterator, which is exhausted
SourceExhausted ==
    /\ gpc = "running"
    /\ ~islice_done(stop, cnt)
    /\ srcPos = Len(source)
    /\ gpc' = "done"
    /\ UNCHANGED <<source, n, stop, cnt, srcPos, yielded, requested, fvars, pvars, nvars>>

\* the islice pulls one element, which the generator yields
PullAndYield ==
    /\ gpc = "running"
    /\ ~islice_done(stop, cnt)
    /\ srcPos < Len(source)
    /\ srcPos' = srcPos + 1
    /\ cnt' = cnt + 1
    /\ yielded' = Append(yielded, source[srcPos + 1])
    /\ gpc' = "suspended"
    /\ UNCHANGED <<source, n, stop, requested, fvars, pvars, nvars>>

\* the consumer stops iterating and drops the generator
Abandon ==
    /\ gpc \in {"created", "suspended"}
    /\ gpc' = "closed"
    /\ UNCHANGED <<source, n, stop, cnt, srcPos, yielded, requested, fvars, pvars, nvars>>

LimitNext ==
    \/ FirstNext \/ NextCall \/ NextAfterDone
    \/ IsliceStop \/ SourceExhausted \/ PullAndYield
    \/ Abandon

SpecLimit == LimitInit /\ [][LimitNext]_vars

Min(x, y) == IF x <= y THEN x ELSE y

\* the number of elements limit(source, n) is to yield
ExpectedCount ==
    IF n # None /\ n.num >= 1 THEN Min(n.num, Len(source)) ELSE Len(source)

\* C4: a generator run to its end has yielded the first min(n, length)
\* elements of the source in order when n >= 1, and the whole source in
\* order when n is 0 or None.
C4_LimitResult ==
    gpc = "done" => yielded = SubSeq(source, 1, ExpectedCount)

C4_Witness ==
    /\ gpc = "done"
    /\ n # None /\ n.num >= 1 /\ n.num < Len(source)
    /\ Len(yielded) = n.num

\* C5: limit pulls on demand, in one forward pass: it has pulled at most
\* as many elements as the consumer has requested, at most n of them when
\* n >= 1, every pulled element is the next one of the source and has been
\* handed over (none is pulled ahead and held), and an abandoned generator
\* leaves the rest of the source unpulled.
C5_Lazy ==
    (gpc # "idle") =>
        /\ srcPos <= requested
        /\ (n # None /\ n.num >= 1) => srcPos <= n.num
        /\ srcPos = Len(yielded)
        /\ yielded = SubSeq(source, 1, srcPos)
        /\ gpc = "closed" => srcPos = requested

C5_Witness ==
    /\ gpc = "closed"
    /\ requested >= 1
    /\ srcPos = requested
    /\ srcPos < Len(source)
    /\ (n = None \/ srcPos < n.num)

(* ---------------------------------------------------------------------- *)
(* extract.py: parse_float                                                 *)
(* ---------------------------------------------------------------------- *)
\* strings are sequences of characters
Chars == {"0", "1", ".", "-", "a"}
Digits == {"0", "1"}
Strings == UNION {[1..k -> Chars] : k \in 0..MaxStrLen}

DigitValue(ch) == IF ch = "1" THEN 1 ELSE 0

\* str.replace('.', '')
replace_dots(v) == SelectSeq(v, LAMBDA ch : ch # ".")

\* str.isnumeric(): at least one character, and all of them numeric
isnumeric(v) == Len(v) > 0 /\ \A i \in 1..Len(v) : v[i] \in Digits

\* the digits of v read as a decimal integer
RECURSIVE DecimalValue(_)
DecimalValue(v) ==
    IF Len(v) = 0 THEN 0
    ELSE 10 * DecimalValue(SubSeq(v, 1, Len(v) - 1)) + DigitValue(v[Len(v)])

DotCount(v) == Cardinality({i \in 1..Len(v) : v[i] = "."})
DigitsAfterDot(v) ==
    IF DotCount(v) = 0 THEN 0
    ELSE Len(v) - (CHOOSE i \in 1..Len(v) : v[i] = ".")

\* a float as mantissa / 10^places; neg marks the sign
FloatValue(neg, mantissa, places) ==
    [type |-> "float", neg |-> neg, mantissa |-> mantissa, places |-> places, nan |-> FALSE]

\* float(v) on a string of these characters: an optional sign, digits with
\* at most one decimal point and at least one digit; anything else raises
\* ValueError.
float(v) ==
    LET neg == Len(v) > 0 /\ v[1] = "-"
        body == IF neg THEN SubSeq(v, 2, Len(v)) ELSE v
    IN  IF isnumeric(replace_dots(body)) /\ DotCount(body) <= 1
        THEN Return(FloatValue(neg, DecimalValue(replace_dots(body)), DigitsAfterDot(body)))
        ELSE Raise("ValueError")

\* float(v) if v.replace('.', '').isnumeric() else float('nan')
parse_float(v) ==
    IF isnumeric(replace_dots(v)) THEN float(v) ELSE Return(NaN)

ParseInit ==
    /\ ppc = "input"
    /\ input \in Strings
    /\ parsed = None
    /\ FilterIdle /\ LimitIdle /\ NeoIdle

ParseFloat ==
    /\ ppc = "input"
    /\ parsed' = parse_float(input)
    /\ ppc' = "parsed"
    /\ UNCHANGED <<input, fvars, lvars, nvars>>

ParseNext == ParseFloat

SpecParse == ParseInit /\ [][ParseNext]_vars

\* a well-formed number in these characters
WellFormed(v) == float(v).exc = "none"

\* C7: parse_float returns a float for every string and never raises, and
\* returns not-a-number for every string that is not a well-formed number.
C7_NeverRaises ==
    ppc = "parsed" =>
        /\ parsed.exc = "none"
        /\ parsed.value.type = "float"
        /\ ~WellFormed(input) => parsed.value = NaN

(* ---------------------------------------------------------------------- *)
(* models.py: the approaches list of a NearEarthObject                     *)
(* ---------------------------------------------------------------------- *)
NeoDesignations == <<"A", "B", "C", "D">>

\* the content of the approaches list of the i-th NearEarthObject
ApproachesOf(i) == lists[neos[i].approaches]
Contents == [i \in 1..Len(neos) |-> ApproachesOf(i)]
TotalAppended == Len(lists[DefaultList])

\* the name cells of a CSV row, and the name arguments of the constructor
\* (None is the default of the parameter)
NameCells == {"", "Eros"}
NameArgs == {None} \cup {StrValue(s) : s \in NameCells}

\* the 'pha' and 'diameter' cells of a CSV row
HazardousCells == {"Y", "N", ""}
DiameterCells == {<<>>, <<"1">>}

\* the parser str of neo_map, on a cell (csv.DictReader gives strings)
str(cell) == StrValue(cell)

\* HAZARDOUS[v].value if v else False
parse_hazardous(v) ==
    IF v = "" THEN Return(Bool(FALSE))
    ELSE IF v \in {"Y", "N"} THEN Return(Bool(v = "Y"))
         ELSE Raise("KeyError")

NeoInit ==
    /\ neos = <<>>
    /\ lists = [r \in {DefaultList} |-> <<>>]
    /\ lastOp = [op |-> "none", neo |-> 0, before |-> <<>>, name |-> None]
    /\ FilterIdle /\ LimitIdle /\ ParseIdle

\* NearEarthObject(designation=..., ...) with no approaches argument, as
\* load_neos and the module's own sample construct it
ConstructNeo ==
    /\ Len(neos) < MaxNeos
    /\ \E name \in NameArgs, h \in {Bool(TRUE), Bool(FALSE)}, m \in Floats :
          /\ neos' = Append(neos, NearEarthObject(NeoDesignations[Len(neos) + 1],
                                                   name, h, m, DefaultList))
          /\ lastOp' = [op |-> "construct", neo |-> Len(neos) + 1,
                        before |-> Contents, name |-> name]
    /\ UNCHANGED <<lists, fvars, lvars, pvars>>

\* one row of load_neos: each cell goes through the parser of neo_map and
\* the NearEarthObject is constructed from the parsed values
LoadNeoRow ==
    /\ Len(neos) < MaxNeos
    /\ \E name \in NameCells, pha \in HazardousCells, diameter \in DiameterCells :
          /\ neos' = Append(neos, NearEarthObject(NeoDesignations[Len(neos) + 1],
                                                   str(name),
                                                   parse_hazardous(pha).value,
                                                   parse_float(diameter).value,
                                                   DefaultList))
          /\ lastOp' = [op |-> "load", neo |-> Len(neos) + 1,
                        before |-> Contents, name |-> str(name)]
    /\ UNCHANGED <<lists, fvars, lvars, pvars>>

\* the linkage step appends an approach to the list of its NearEarthObject
AppendApproach ==
    /\ TotalAppended < MaxAppends
    /\ \E i \in 1..Len(neos), e \in Elems :
          /\ lists' = [lists EXCEPT ![neos[i].approaches] = Append(@, e)]
          /\ lastOp' = [op |-> "append", neo |-> i, before |-> Contents, name |-> None]
    /\ UNCHANGED <<neos, fvars, lvars, pvars>>

NeoNext == ConstructNeo \/ LoadNeoRow \/ AppendApproach

SpecNeo == NeoInit /\ [][NeoNext]_vars

\* C8: a NearEarthObject constructed without an approaches argument has an
\* empty list of its own: right after construction its list is empty, and
\* an append to one NearEarthObject's list leaves the list of every other
\* one as it was.
C8_OwnList ==
    /\ lastOp.op = "construct" => ApproachesOf(lastOp.neo) = <<>>
    /\ lastOp.op = "append" =>
          \A j \in 1..Len(neos) : j # lastOp.neo => ApproachesOf(j) = lastOp.before[j]

\* the name an empty or absent input is to give, and a non-empty one
NormalisedName(v) == IF v = None \/ v = StrValue("") THEN None ELSE v

\* C11: the name of a NearEarthObject is never the empty string: an empty
\* or absent name input, to the constructor or in a CSV row, gives None,
\* and a non-empty one gives that string.
C11_NameNeverEmpty ==
    /\ \A i \in 1..Len(neos) : neos[i].name # StrValue("")
    /\ lastOp.op \in {"construct", "load"} =>
          neos[lastOp.neo].name = NormalisedName(lastOp.name)

====
